---- MODULE Spec2Model ----
(***************************************************************************)
(* A model of claude_statusline.py: the usage fetch with its cache and     *)
(* stale fallback (fetch_usage), the duration and reset-time formatting    *)
(* (format_duration, format_reset) and the rendering of the status line    *)
(* (main).                                                                 *)
(*                                                                         *)
(* Instants are whole seconds since the Unix epoch.  A JSON text is a      *)
(* sequence of tokens, a JSON value a record; json.dump and json.load are  *)
(* the operators Dump and Loads between the two.                           *)
(***************************************************************************)
EXTENDS Integers, Sequences, FiniteSets, TLC

VARIABLES
    now,        \* the clock: time.time() and datetime.now(CST)
    cache,      \* CACHE_FILE: [exists, text, mtime]
    call,       \* the last invocation of fetch_usage: inputs, path, effects, result
    good,       \* the text of the last snapshot an invocation fetched and persisted
    usage,      \* main: the value fetch_usage returned
    parts,      \* main: the lines printed
    crashed,    \* main: an exception left main uncaught
    delta,      \* format_duration: the span, in whole seconds
    dur,        \* format_duration: the string returned
    resets_at,  \* format_reset: its argument
    reset_str,  \* format_reset: the string returned
    pc,         \* concurrent invocations: where each one is in fetch_usage
    data,       \* concurrent invocations: the snapshot each one fetched
    ret,        \* concurrent invocations: what each fetch_usage returned
    fetched,    \* concurrent invocations: the snapshots fetched so far
    step        \* a single call of format_duration, format_reset or main: start, done

vars == <<now, cache, call, good, usage, parts, crashed, delta, dur,
          resets_at, reset_str, pc, data, ret, fetched, step>>

(***************************************************************************)
(* Constants of the program.                                               *)
(***************************************************************************)
CACHE_TTL == 120

\* CST = timezone(timedelta(hours=-6)), as a UTC offset in seconds
CST == -21600

DAY == 86400

(***************************************************************************)
(* Bounds of the model.                                                    *)
(***************************************************************************)
\* format_duration is run on every span from -MinSpan to MaxSpan seconds
MaxSpan == 175000

MinSpan == 2

\* format_reset is run on instants T0 + k hours (k up to MaxHours), each one
\* second early, on time and one second late
MaxHours == 80

\* the first instant of the model: 2024-02-28 00:00 in UTC-06:00
T0 == 1709100000

\* main is run on every utilization from 0 to MaxUtil tenths of a percent
MaxUtil == 1100

\* the number of invocations that run at the same time
NProcs == 2

\* the clock is read at T0 and at T0 + CACHE_TTL - 2 + k seconds, k in 1..MaxTicks
MaxTicks == 3

\* a failing cache write leaves at most MaxKeep tokens of the text
MaxKeep == 1

Max(a, b) == IF a > b THEN a ELSE b

Min(a, b) == IF a < b THEN a ELSE b

(***************************************************************************)
(* format_duration                                                         *)
(***************************************************************************)
\* the exponent e of the double total_min / 1440: 2^e <= total_min/1440 < 2^(e+1)
RECURSIVE BinaryExponent(_, _)
BinaryExponent(total_min, e) ==
    IF 1440 * (2 ^ (e + 1)) <= total_min
    THEN BinaryExponent(total_min, e + 1)
    ELSE e

\* 2^k modulo 5
Pow2Mod5(k) ==
    CASE k % 4 = 0 -> 1
      [] k % 4 = 1 -> 2
      [] k % 4 = 2 -> 4
      [] OTHER     -> 3

\* A mutant of DaysTenths: the tenths are cut, not rounded.
DaysTenths_truncated(total_min) == total_min \div 144

\* f"{total_min / 1440:.1f}" as a number of tenths.  The quotient is the double
\* nearest to total_min/1440 and the format rounds that double's exact value to
\* the nearest tenth, ties to even.  total_min/1440 is halfway between two tenths
\* when total_min = 144 q + 72, and is then (2q+1)/20: a double exactly when 5
\* divides 2q+1; otherwise the double lies below or above (2q+1)/20 as the
\* remainder of (2q+1) * 2^(50-e) modulo 5 is below or above 5/2.
DaysTenths(total_min) ==
    LET q == total_min \div 144
        r == total_min % 144
        n == 2 * q + 1
        e == BinaryExponent(total_min, 0)
        rem == ((n % 5) * Pow2Mod5(50 - e)) % 5
    IN  IF r < 72 THEN q
        ELSE IF r > 72 THEN q + 1
        ELSE IF n % 5 = 0 THEN (IF q % 2 = 0 THEN q ELSE q + 1)
        ELSE IF rem <= 2 THEN q
        ELSE q + 1

\* f"{days:.1f}d".replace(".0d", "d")
DaysStr(tenths) ==
    IF tenths % 10 = 0
    THEN ToString(tenths \div 10) \o "d"
    ELSE ToString(tenths \div 10) \o "." \o ToString(tenths % 10) \o "d"

\* format_duration(delta), delta a span of delta_sec whole seconds
format_duration(delta_sec) ==
    LET total_sec == Max(0, delta_sec)
        total_min == total_sec \div 60
        h == total_sec \div 3600
        rem_sec == total_sec % 3600
        m == rem_sec \div 60
    IN  IF total_min < 60 THEN ToString(total_min) \o "min"
        ELSE IF h < 24
             THEN (IF m /= 0
                   THEN ToString(h) \o "h " \o ToString(m) \o "m"
                   ELSE ToString(h) \o "h")
        ELSE DaysStr(DaysTenths(total_min))

(***************************************************************************)
(* format_reset                                                            *)
(***************************************************************************)
\* resets_at as format_reset sees it: absent (None or ""), a string that
\* fromisoformat rejects, or an ISO-8601 string naming the instant t
NoReset == [k |-> "absent", t |-> 0]
BadReset == [k |-> "bad", t |-> 0]
IsoReset(t) == [k |-> "iso", t |-> t]

\* the wall clock of instant t in the zone CST, in seconds
Local(t) == t + CST

\* .date(): the day number (days since 1970-01-01) of instant t in the zone CST
DateOf(t) == Local(t) \div DAY

\* the month and day of day number z (the proleptic Gregorian calendar)
MonthDay(z) ==
    LET s == z + 719468
        era == s \div 146097
        doe == s - era * 146097
        yoe == (doe - doe \div 1460 + doe \div 36524 - doe \div 146096) \div 365
        doy == doe - (365 * yoe + yoe \div 4 - yoe \div 100)
        mp == (5 * doy + 2) \div 153
    IN  [month |-> IF mp < 10 THEN mp + 3 ELSE mp - 9,
         day   |-> doy - (153 * mp + 2) \div 5 + 1]

\* two digits, zero-padded (%M)
Pad2(n) == IF n < 10 THEN "0" \o ToString(n) ELSE ToString(n)

\* dt.strftime("%-I:%M%p").lower(), with ":00" dropped on the hour
ClockStr(t) ==
    LET sod == Local(t) % DAY
        H == sod \div 3600
        M == (sod % 3600) \div 60
        I == ((H + 11) % 12) + 1
        p == IF H < 12 THEN "am" ELSE "pm"
    IN  IF M = 0
        THEN ToString(I) \o p
        ELSE ToString(I) \o ":" \o Pad2(M) \o p

\* dt.strftime("%-m/%-d")
DateStr(t) ==
    LET md == MonthDay(DateOf(t))
    IN  ToString(md.month) \o "/" \o ToString(md.day)

\* A mutant of ShowTime: the threshold is exclusive.
ShowTime_exclusive(delta_sec) == delta_sec < DAY

\* show_time = delta.total_seconds() <= 86400
ShowTime(delta_sec) == delta_sec <= DAY

\* format_reset(resets_at), called at instant t_now
format_reset(r, t_now) ==
    IF r.k = "absent" THEN ""
    ELSE IF r.k = "bad" THEN ""
    ELSE
    LET dt == r.t
        h == ClockStr(dt)
        delta_sec == IF dt > t_now THEN dt - t_now ELSE 0
        d == IF dt > t_now THEN format_duration(delta_sec) ELSE "now"
        show_time == ShowTime(delta_sec)
    IN  IF DateOf(dt) = DateOf(t_now)
        THEN " (" \o d \o " - " \o h \o ")"
        ELSE IF DateOf(dt) = DateOf(t_now + DAY)
        THEN (IF show_time
              THEN " (" \o d \o " - tmrw " \o h \o ")"
              ELSE " (" \o d \o " - tmrw)")
        ELSE (IF show_time
              THEN " (" \o d \o " - " \o DateStr(dt) \o " " \o h \o ")"
              ELSE " (" \o d \o " - " \o DateStr(dt) \o ")")

(***************************************************************************)
(* JSON values and texts                                                   *)
(***************************************************************************)
\* "utilization" of a window: absent, a number (n tenths of a percent), or a
\* value that is not a number (a string)
NoUtil == [k |-> "absent", n |-> 0]
Num(n) == [k |-> "num", n |-> n]
StrUtil == [k |-> "str", n |-> 0]

\* a window entry of a snapshot: absent, a mapping, or a value that is not a
\* mapping (a non-empty string)
NoWindow == [k |-> "absent", util |-> NoUtil, resets |-> NoReset]
Win(u, r) == [k |-> "dict", util |-> u, resets |-> r]
StrWindow == [k |-> "str", util |-> NoUtil, resets |-> NoReset]

\* a JSON value: a mapping with the entries five_hour and seven_day, a list, null
Snapshot(f, s) == [k |-> "dict", five |-> f, seven |-> s]
EmptyDoc == Snapshot(NoWindow, NoWindow)
ListDoc == [k |-> "list", five |-> NoWindow, seven |-> NoWindow]
NullDoc == [k |-> "null", five |-> NoWindow, seven |-> NoWindow]

\* the decimal digits of n, one token each
RECURSIVE Digits(_)
Digits(n) == IF n < 10 THEN <<ToString(n)>> ELSE Digits(n \div 10) \o <<ToString(n % 10)>>

NumTokens(n) ==
    IF n % 10 = 0 THEN Digits(n \div 10) ELSE Digits(n \div 10) \o <<".">> \o Digits(n % 10)

DumpUtil(u) ==
    CASE u.k = "absent" -> <<>>
      [] u.k = "num"    -> <<"utilization", ":">> \o NumTokens(u.n)
      [] OTHER          -> <<"utilization", ":", "'high'">>

DumpReset(r) ==
    CASE r.k = "absent" -> <<>>
      [] r.k = "iso"    -> <<"resets_at", ":", ToString(r.t)>>
      [] OTHER          -> <<"resets_at", ":", "'soon'">>

DumpWindow(key, w) ==
    CASE w.k = "absent" -> <<>>
      [] w.k = "dict"   -> <<key, ":", "{">> \o DumpUtil(w.util) \o DumpReset(w.resets) \o <<"}">>
      [] OTHER          -> <<key, ":", "'n/a'">>

\* json.dump(data, f): the text written for the value d
Dump(d) ==
    CASE d.k = "list" -> <<"[", "]">>
      [] d.k = "null" -> <<"null">>
      [] OTHER        -> <<"{">> \o DumpWindow("five_hour", d.five)
                                \o DumpWindow("seven_day", d.seven) \o <<"}">>

\* the snapshots of the model: what the endpoint may answer and the cache may hold
Reset1 == IsoReset(T0 + 2700)

FullSnap == Snapshot(Win(Num(420), Reset1), Win(Num(7), NoReset))

FiveSnap == Snapshot(Win(Num(1005), NoReset), NoWindow)

Snapshots == {FullSnap, FiveSnap, EmptyDoc}

\* decodable JSON that is no usage snapshot
Misshapen == {ListDoc, NullDoc, Snapshot(StrWindow, NoWindow),
              Snapshot(Win(StrUtil, NoReset), NoWindow)}

Docs == Snapshots \cup Misshapen

\* json.load(f), json.loads(body): the value of a text, or a failure (ValueError)
\* the text of each
DocText == [d \in Docs |-> Dump(d)]

Loads(text) ==
    IF \E d \in Docs : DocText[d] = text
    THEN [ok |-> TRUE, v |-> CHOOSE d \in Docs : DocText[d] = text]
    ELSE [ok |-> FALSE, v |-> EmptyDoc]

(***************************************************************************)
(* main                                                                    *)
(***************************************************************************)
\* A mutant of Format0f: ties are rounded up.
Format0f_half_up(n) == (n + 5) \div 10

\* f"{util:.0f}" for util = n tenths: the nearest integer, a tie (n ending in 5,
\* which a double holds exactly) going to the even one
Format0f(n) ==
    LET q == n \div 10
        r == n % 10
    IN  IF r < 5 THEN q
        ELSE IF r > 5 THEN q + 1
        ELSE IF q % 2 = 0 THEN q ELSE q + 1

\* if five: ... the truth value of a window entry
Truthy(w) ==
    \/ w.k = "str"
    \/ w.k = "dict" /\ (w.util.k /= "absent" \/ w.resets.k /= "absent")

\* one window of main: the line appended, or the exception raised (five.get on a
\* value that is no mapping, the format code f on a value that is no number)
WindowLine(label, w, t_now) ==
    IF ~Truthy(w) THEN [crashed |-> FALSE, lines |-> <<>>]
    ELSE IF w.k /= "dict" THEN [crashed |-> TRUE, lines |-> <<>>]
    ELSE IF w.util.k = "str" THEN [crashed |-> TRUE, lines |-> <<>>]
    ELSE LET util == IF w.util.k = "absent" THEN 0 ELSE w.util.n
         IN  [crashed |-> FALSE,
              lines |-> <<label \o ": " \o ToString(Format0f(util)) \o "%"
                                \o format_reset(w.resets, t_now)>>]

\* main(), given what fetch_usage returned: the lines printed, or the exception
\* that leaves main (usage.get on a value that is no mapping, or a window's)
main(u, t_now) ==
    IF u.k /= "dict" THEN [crashed |-> TRUE, parts |-> <<>>]
    ELSE LET five == WindowLine("5h", u.five, t_now)
             seven == WindowLine("7d", u.seven, t_now)
         IN  IF five.crashed \/ seven.crashed
             THEN [crashed |-> TRUE, parts |-> <<>>]
             ELSE [crashed |-> FALSE, parts |-> five.lines \o seven.lines]

(***************************************************************************)
(* fetch_usage                                                             *)
(***************************************************************************)
\* CACHE_FILE: absent, or a text with its modification time
NoCache == [exists |-> FALSE, text |-> <<>>, mtime |-> 0]
CacheOf(text, t) == [exists |-> TRUE, text |-> text, mtime |-> t]

\* what one invocation meets: whether CRED_FILE yields a token, how urlopen
\* ends, the body read, how the cache write ends (ok; open fails; the write
\* fails after the file was truncated, keep tokens having reached it)
NoCred == [cred |-> FALSE, net |-> "unreachable", body |-> <<>>, wr |-> "ok", keep |-> 0]
NetFails(how) == [cred |-> TRUE, net |-> how, body |-> <<>>, wr |-> "ok", keep |-> 0]
Answer(body, wr, keep) == [cred |-> TRUE, net |-> "ok", body |-> body, wr |-> wr, keep |-> keep]

\* a body that is no JSON
Undecodable == <<"<html>">>

Inputs ==
    {NoCred, NetFails("unreachable"), NetFails("http_error"), Answer(Undecodable, "ok", 0)}
    \cup {Answer(DocText[d], "ok", 0) : d \in Docs}
    \cup {Answer(DocText[d], "open_fails", 0) : d \in Docs}
    \cup {Answer(DocText[d], "cut", n) : d \in Docs, n \in 0..MaxKeep}

\* A mutant of IsFresh: the comparison is turned round.
IsFresh_inverted(c, t) == t - c.mtime > CACHE_TTL

\* age = time.time() - os.path.getmtime(CACHE_FILE); age < CACHE_TTL
IsFresh(c, t) == t - c.mtime < CACHE_TTL

\* with open(CACHE_FILE) as f: json.load(f)
CacheLoad(c) ==
    IF c.exists THEN Loads(c.text) ELSE [ok |-> FALSE, v |-> EmptyDoc]

\* the first try block: the cached value when the file exists, is fresh and
\* parses; any exception is passed over
ReadFresh(c, t) ==
    IF c.exists /\ IsFresh(c, t) THEN CacheLoad(c) ELSE [ok |-> FALSE, v |-> EmptyDoc]

\* A mutant of CacheWrite: a failing write is not noticed.
CacheWrite_unchecked(c, d, t, wr, keep) ==
    CASE wr = "ok"         -> [ok |-> TRUE, cache |-> CacheOf(Dump(d), t)]
      [] wr = "open_fails" -> [ok |-> TRUE, cache |-> c]
      [] OTHER             ->
            [ok |-> TRUE,
             cache |-> CacheOf(SubSeq(Dump(d), 1, Min(keep, Len(Dump(d)) - 1)), t)]

\* with open(CACHE_FILE, "w") as f: json.dump(data, f).  open truncates the file
\* before anything is written; a write that fails leaves what had reached it.
CacheWrite(c, d, t, wr, keep) ==
    CASE wr = "ok"         -> [ok |-> TRUE, cache |-> CacheOf(Dump(d), t)]
      [] wr = "open_fails" -> [ok |-> FALSE, cache |-> c]
      [] OTHER             ->
            [ok |-> FALSE,
             cache |-> CacheOf(SubSeq(Dump(d), 1, Min(keep, Len(Dump(d)) - 1)), t)]

\* the second try block up to return data: the credential, the request, the
\* body decoded, the cache written
RemoteFetch(c, t, in) ==
    LET failed(cr, nc, w, cc) ==
            [ok |-> FALSE, v |-> EmptyDoc, cred_read |-> cr, net_call |-> nc,
             wrote |-> w, cache |-> cc]
        body == Loads(in.body)
        w == CacheWrite(c, body.v, t, in.wr, in.keep)
    IN  IF ~in.cred THEN failed(TRUE, FALSE, FALSE, c)
        ELSE IF in.net /= "ok" THEN failed(TRUE, TRUE, FALSE, c)
        ELSE IF ~body.ok THEN failed(TRUE, TRUE, FALSE, c)
        ELSE IF ~w.ok THEN failed(TRUE, TRUE, TRUE, w.cache)
        ELSE [ok |-> TRUE, v |-> body.v, cred_read |-> TRUE, net_call |-> TRUE,
              wrote |-> TRUE, cache |-> w.cache]

\* A mutant of StaleFallback: the inner try is missing.
StaleFallback_unguarded(c) ==
    [raised |-> ~CacheLoad(c).ok, v |-> CacheLoad(c).v]

\* A mutant of StaleFallback: the stale cache is not consulted.
StaleFallback_empty(c) == [raised |-> FALSE, v |-> EmptyDoc]

\* the except block: the cache whatever its age, else {}
StaleFallback(c) ==
    [raised |-> FALSE, v |-> IF CacheLoad(c).ok THEN CacheLoad(c).v ELSE EmptyDoc]

\* fetch_usage() at instant t with the cache c, meeting in: what it returns, by
\* which path, what it touched, and the cache it leaves
fetch_usage(c, t, in) ==
    LET fresh == ReadFresh(c, t)
        f == RemoteFetch(c, t, in)
        s == StaleFallback(f.cache)
    IN  IF fresh.ok
        THEN [path |-> "fresh", ret |-> fresh.v, raised |-> FALSE, cred_read |-> FALSE,
              net_call |-> FALSE, wrote |-> FALSE, cache |-> c]
        ELSE IF f.ok
        THEN [path |-> "fetched", ret |-> f.v, raised |-> FALSE, cred_read |-> TRUE,
              net_call |-> TRUE, wrote |-> TRUE, cache |-> f.cache]
        ELSE [path |-> "fallback", ret |-> s.v, raised |-> s.raised,
              cred_read |-> f.cred_read, net_call |-> f.net_call, wrote |-> f.wrote,
              cache |-> f.cache]

(***************************************************************************)
(* Idle values of the variables a specification does not use.              *)
(***************************************************************************)
NoCall == [done |-> FALSE, pre |-> NoCache, at |-> 0, in |-> NoCred,
           out |-> fetch_usage(NoCache, 0, NoCred)]

IdleFormat == delta = 0 /\ dur = "" /\ resets_at = NoReset /\ reset_str = ""

IdleRun == call = NoCall /\ good = <<>> /\ cache = NoCache

IdleMain == usage = EmptyDoc /\ parts = <<>> /\ crashed = FALSE

IdleRace == pc = <<>> /\ data = <<>> /\ ret = <<>> /\ fetched = {}

\* the readings of the clock
Readings == {T0} \cup {T0 + CACHE_TTL - 2 + k : k \in 1..MaxTicks}

\* time passes
Tick ==
    /\ \E t \in Readings : t > now /\ now' = t
    /\ UNCHANGED <<cache, call, good, usage, parts, crashed, delta, dur,
                   resets_at, reset_str, pc, data, ret, fetched, step>>

(***************************************************************************)
(* The status line run again and again, one invocation at a time.          *)
(***************************************************************************)
Init ==
    /\ now = T0
    /\ cache \in {NoCache} \cup {CacheOf(Dump(d), T0) : d \in Snapshots}
    /\ call = NoCall
    /\ good = cache.text
    /\ IdleMain /\ IdleFormat /\ IdleRace
    /\ step = "start"

\* one run of the script: main calls fetch_usage, renders and prints
Run ==
    \E in \in Inputs :
        LET r == fetch_usage(cache, now, in)
            m == main(r.ret, now)
        IN  /\ call' = [done |-> TRUE, pre |-> cache, at |-> now, in |-> in, out |-> r]
            /\ cache' = r.cache
            /\ good' = IF r.path = "fetched" THEN Dump(r.ret) ELSE good
            /\ usage' = r.ret
            /\ parts' = m.parts
            /\ crashed' = (r.raised \/ m.crashed)
            /\ step' = "done"
            /\ UNCHANGED <<now, delta, dur, resets_at, reset_str, pc, data, ret, fetched>>

Next == Run \/ Tick

Spec == Init /\ [][Next]_vars

(***************************************************************************)
(* Properties of fetch_usage, one invocation at a time (Spec).             *)
(***************************************************************************)
\* the age of the cache the last invocation met
AgeMet == call.at - call.pre.mtime

\* the last invocation met a cache file that parses
MetParseable == call.done /\ call.pre.exists /\ Loads(call.pre.text).ok

\* the last invocation's fetch from the endpoint failed before the cache write:
\* no credential, no answer, an error status, or a body that is no JSON
RemoteFailed == ~call.in.cred \/ call.in.net /= "ok" \/ ~Loads(call.in.body).ok

\* C1: an invocation that meets a parseable cache file younger than CACHE_TTL
\* returns the cached snapshot, reads no credential, calls no endpoint and
\* leaves the cache file as it was.
C1_FreshCacheServed ==
    (MetParseable /\ AgeMet < CACHE_TTL) =>
        /\ call.out.ret = Loads(call.pre.text).v
        /\ ~call.out.raised
        /\ ~call.out.cred_read /\ ~call.out.net_call /\ ~call.out.wrote
        /\ cache = call.pre

\* a cache one second short of the TTL was served although the endpoint would
\* have answered with another snapshot
C1_Witness ==
    /\ MetParseable /\ AgeMet = CACHE_TTL - 1
    /\ call.in.net = "ok" /\ call.in.wr = "ok"
    /\ Loads(call.in.body).ok /\ Loads(call.in.body).v /= call.out.ret
    /\ call.out.ret = FullSnap

\* C2: an invocation that meets a parseable cache file of age CACHE_TTL or
\* more, and whose fetch from the endpoint fails, returns the snapshot of that
\* stale cache file.
C2_StaleCacheServed ==
    (MetParseable /\ AgeMet >= CACHE_TTL /\ RemoteFailed) =>
        /\ call.out.ret = Loads(call.pre.text).v
        /\ call.out.path = "fallback"

\* a cache exactly CACHE_TTL old was served when the endpoint was unreachable
C2_Witness ==
    /\ MetParseable /\ AgeMet = CACHE_TTL /\ call.in.cred
    /\ call.in.net = "unreachable"
    /\ call.out.ret = FiveSnap

\* what the stale fallback gives on the cache as the invocation left it
FallbackResult ==
    IF cache.exists /\ Loads(cache.text).ok THEN Loads(cache.text).v ELSE EmptyDoc

\* C3: fetch_usage raises nothing and returns the fresh cached snapshot, the
\* snapshot just fetched and persisted, or the stale-fallback result (the cache
\* if it parses, else the empty mapping); a failure of the cache write ends in
\* the stale fallback.
C3_ThreeReturns ==
    call.done =>
        /\ ~call.out.raised
        /\ \/ /\ call.out.path = "fresh"
              /\ MetParseable /\ AgeMet < CACHE_TTL
              /\ call.out.ret = Loads(call.pre.text).v
           \/ /\ call.out.path = "fetched"
              /\ ~RemoteFailed /\ call.in.wr = "ok"
              /\ call.out.ret = Loads(call.in.body).v
           \/ /\ call.out.path = "fallback"
              /\ RemoteFailed \/ call.in.wr /= "ok"
              /\ call.out.ret = FallbackResult

\* the write of a fetched snapshot failed after truncating a parseable stale
\* cache: the invocation returned the empty mapping
C3_Witness ==
    /\ MetParseable /\ AgeMet >= CACHE_TTL
    /\ ~RemoteFailed /\ call.in.wr = "cut"
    /\ call.out.path = "fallback" /\ call.out.ret = EmptyDoc
    /\ Loads(call.pre.text).v = FullSnap

\* C4: the cache file, if present, holds the last snapshot an invocation
\* fetched and persisted (at first: the snapshot it held), never an empty or
\* cut text, and an invocation that fails leaves the cache file as it was.
C4_CacheHoldsLastGood ==
    /\ cache.exists => (cache.text = good /\ Loads(cache.text).ok)
    /\ (call.done /\ call.out.path = "fallback") => cache = call.pre

\* a window entry of a usage snapshot: a mapping with a numeric utilization
WellFormedWindow(w) == w.k = "absent" \/ (w.k = "dict" /\ w.util.k = "num")

\* a usage snapshot, the empty mapping included
WellFormed(d) == d.k = "dict" /\ WellFormedWindow(d.five) /\ WellFormedWindow(d.seven)

\* C5: what fetch_usage returns is a well-formed usage snapshot or the empty
\* mapping, and no other decodable JSON value is ever cached.
C5_ReturnsWellFormed ==
    /\ call.done => WellFormed(call.out.ret)
    /\ (cache.exists /\ Loads(cache.text).ok) => WellFormed(Loads(cache.text).v)

\* C6: a run ends without an uncaught exception and prints at most two lines.
C6_NoUncaughtException == ~crashed /\ Len(parts) <= 2

(***************************************************************************)
(* format_duration on its own (SpecDuration).                              *)
(***************************************************************************)
InitDuration ==
    /\ delta \in (0 - MinSpan)..MaxSpan
    /\ dur = "" /\ resets_at = NoReset /\ reset_str = ""
    /\ now = T0 /\ step = "start"
    /\ IdleRun /\ IdleMain /\ IdleRace

CallFormatDuration ==
    /\ step = "start"
    /\ dur' = format_duration(delta)
    /\ step' = "done"
    /\ UNCHANGED <<now, cache, call, good, usage, parts, crashed, delta,
                   resets_at, reset_str, pc, data, ret, fetched>>

NextDuration == CallFormatDuration

SpecDuration == InitDuration /\ [][NextDuration]_vars

\* a number of tenths of a day as the claim writes it: one decimal, .0 dropped
TenthsLabel(T) ==
    IF T % 10 = 0
    THEN ToString(T \div 10) \o "d"
    ELSE ToString(T \div 10) \o "." \o ToString(T % 10) \o "d"

\* the minutes and hours forms of the span s >= 0, "" when s is a day or more
ShortLabel(s) ==
    IF s \div 60 < 60 THEN ToString(s \div 60) \o "min"
    ELSE IF s \div 3600 < 24
    THEN (IF (s % 3600) \div 60 > 0
          THEN ToString(s \div 3600) \o "h " \o ToString((s % 3600) \div 60) \o "m"
          ELSE ToString(s \div 3600) \o "h")
    ELSE ""

\* C9 as claimed: minutes below an hour, hours and minutes below a day, else
\* the number of days of the span, s / 86400, to the nearest tenth (either
\* neighbour when s is halfway between two tenths).
C9_DaysOfSpanToOneDecimal ==
    step = "done" =>
        LET s == Max(0, delta)
        IN  IF s \div 3600 < 24
            THEN dur = ShortLabel(s)
            ELSE \E T \in (s \div 8640)..(s \div 8640 + 1) :
                    /\ 8640 * T - s <= 4320 /\ s - 8640 * T <= 4320
                    /\ dur = TenthsLabel(T)

\* C9 as amended: the days are the whole minutes of the span, s div 60, over
\* 1440, to the nearest tenth (either neighbour when halfway).
C9_DaysOfWholeMinutesToOneDecimal ==
    step = "done" =>
        LET s == Max(0, delta)
            M == s \div 60
        IN  IF s \div 3600 < 24
            THEN dur = ShortLabel(s)
            ELSE \E T \in (M \div 144)..(M \div 144 + 1) :
                    /\ 144 * T - M <= 72 /\ M - 144 * T <= 72
                    /\ dur = TenthsLabel(T)

\* 1 day 3 h 36 min 30 s, 1.1503 days, came out as 1.1d
C9_Witness == step = "done" /\ delta = 99390 /\ dur = "1.1d"

(***************************************************************************)
(* format_reset on its own (SpecReset).                                    *)
(***************************************************************************)
Instants == {T0 + 3600 * k + e : k \in 0..MaxHours, e \in {-1, 0, 1}}

InitReset ==
    /\ now \in Instants
    /\ resets_at \in {NoReset, BadReset} \cup {IsoReset(t) : t \in Instants}
    /\ reset_str = "" /\ delta = 0 /\ dur = ""
    /\ step = "start"
    /\ IdleRun /\ IdleMain /\ IdleRace

CallFormatReset ==
    /\ step = "start"
    /\ reset_str' = format_reset(resets_at, now)
    /\ step' = "done"
    /\ UNCHANGED <<now, cache, call, good, usage, parts, crashed, delta, dur,
                   resets_at, pc, data, ret, fetched>>

NextReset == CallFormatReset

SpecReset == InitReset /\ [][NextReset]_vars

\* C7: the annotation carries the 12-hour clock exactly when the remaining
\* duration (zero when the reset is not after now) is at most 24 hours, on the
\* same date (no prefix), on the next date (tmrw) and on any other date (m/d).
C7_ClockIffWithinDay ==
    (step = "done" /\ resets_at.k = "iso") =>
        LET dt == resets_at.t
            remaining == Max(0, dt - now)
            label == IF dt > now THEN format_duration(remaining) ELSE "now"
            prefix == IF DateOf(dt) = DateOf(now) THEN ""
                      ELSE IF DateOf(dt) = DateOf(now) + 1 THEN "tmrw "
                      ELSE DateStr(dt) \o " "
            bare == IF DateOf(dt) = DateOf(now) THEN ""
                    ELSE IF DateOf(dt) = DateOf(now) + 1 THEN "tmrw"
                    ELSE DateStr(dt)
        IN  /\ remaining <= DAY =>
                reset_str = " (" \o label \o " - " \o prefix \o ClockStr(dt) \o ")"
            /\ remaining > DAY =>
                reset_str = " (" \o label \o " - " \o bare \o ")"

\* a reset exactly 24 hours ahead, on the next date, is shown with its clock
C7_Witness ==
    /\ step = "done" /\ resets_at.k = "iso"
    /\ resets_at.t - now = DAY
    /\ reset_str = " (1d - tmrw 3am)"

(***************************************************************************)
(* main on a given snapshot (SpecRender).                                  *)
(***************************************************************************)
InitRender ==
    /\ now = T0
    /\ usage \in {Snapshot(Win(Num(u), NoReset), w) :
                     u \in 0..MaxUtil, w \in {NoWindow, Win(Num(420), Reset1)}}
    /\ parts = <<>> /\ crashed = FALSE
    /\ step = "start"
    /\ IdleRun /\ IdleFormat /\ IdleRace

CallMain ==
    /\ step = "start"
    /\ parts' = main(usage, now).parts
    /\ crashed' = main(usage, now).crashed
    /\ step' = "done"
    /\ UNCHANGED <<now, cache, call, good, usage, delta, dur, resets_at,
                   reset_str, pc, data, ret, fetched>>

NextRender == CallMain

SpecRender == InitRender /\ [][NextRender]_vars

\* C8 as claimed: the utilization is shown as the nearest integer, a tie
\* rounded up.
C8_RoundsHalfUp ==
    step = "done" =>
        /\ Len(parts) >= 1
        /\ parts[1] = "5h: " \o ToString((usage.five.util.n + 5) \div 10) \o "%"

\* C8 as amended: the utilization is shown as the nearest integer, a tie
\* rounded to the even neighbour.
C8_RoundsHalfEven ==
    step = "done" =>
        /\ Len(parts) >= 1
        /\ \E n \in 0..(MaxUtil \div 10 + 1) :
              LET d == 10 * n - usage.five.util.n
              IN  /\ d <= 5 /\ d >= -5
                  /\ (d = 5 \/ d = -5) => n % 2 = 0
                  /\ parts[1] = "5h: " \o ToString(n) \o "%"

\* 72.5 came out as 72%
C8_Witness ==
    step = "done" /\ usage.five.util.n = 725 /\ parts = <<"5h: 72%">>

(***************************************************************************)
(* Invocations that run at the same time on one cache file (SpecRace).     *)
(* Each is a process of its own; a step is one system call on the file or  *)
(* one call that may fail.  The cache write is open(CACHE_FILE, "w"),      *)
(* which truncates, then one write at offset 0 when the file is closed.    *)
(***************************************************************************)
Procs == 1..NProcs

NoReturn == [raised |-> FALSE, v |-> EmptyDoc]

InitRace ==
    /\ now = T0
    /\ cache \in {NoCache} \cup {CacheOf(DocText[d], T0) : d \in Snapshots}
    /\ good = cache.text
    /\ call = NoCall
    /\ pc = [p \in Procs |-> "stat"]
    /\ data = [p \in Procs |-> EmptyDoc]
    /\ ret = [p \in Procs |-> NoReturn]
    /\ fetched = {}
    /\ step = "start"
    /\ IdleMain /\ IdleFormat

\* what a write of text at offset 0 makes of the file's text
Overwrite(old, text) == text \o SubSeq(old, Len(text) + 1, Len(old))

\* os.path.exists, os.path.getmtime and the comparison of the age
Stat(p) ==
    /\ pc[p] = "stat"
    /\ pc' = [pc EXCEPT ![p] = IF cache.exists /\ IsFresh(cache, now) THEN "read" ELSE "cred"]
    /\ UNCHANGED <<now, cache, call, good, usage, parts, crashed, delta, dur,
                   resets_at, reset_str, data, ret, fetched, step>>

\* the fresh cache is opened and read: returned if it parses, passed over if not
ReadCache(p) ==
    /\ pc[p] = "read"
    /\ IF CacheLoad(cache).ok
       THEN /\ ret' = [ret EXCEPT ![p] = [raised |-> FALSE, v |-> CacheLoad(cache).v]]
            /\ pc' = [pc EXCEPT ![p] = "done"]
       ELSE /\ ret' = ret
            /\ pc' = [pc EXCEPT ![p] = "cred"]
    /\ UNCHANGED <<now, cache, call, good, usage, parts, crashed, delta, dur,
                   resets_at, reset_str, data, fetched, step>>

\* the credential file is read
ReadCred(p) ==
    /\ pc[p] = "cred"
    /\ \E ok \in BOOLEAN : pc' = [pc EXCEPT ![p] = IF ok THEN "net" ELSE "fallback"]
    /\ UNCHANGED <<now, cache, call, good, usage, parts, crashed, delta, dur,
                   resets_at, reset_str, data, ret, fetched, step>>

\* urlopen and json.loads: a snapshot arrives, or the call fails
CallEndpoint(p) ==
    /\ pc[p] = "net"
    /\ \E in \in {NetFails("unreachable")} \cup {Answer(DocText[d], "ok", 0) : d \in Snapshots} :
          IF in.net = "ok" /\ Loads(in.body).ok
          THEN /\ data' = [data EXCEPT ![p] = Loads(in.body).v]
               /\ fetched' = fetched \cup {Loads(in.body).v}
               /\ pc' = [pc EXCEPT ![p] = "open"]
          ELSE /\ UNCHANGED <<data, fetched>>
               /\ pc' = [pc EXCEPT ![p] = "fallback"]
    /\ UNCHANGED <<now, cache, call, good, usage, parts, crashed, delta, dur,
                   resets_at, reset_str, ret, step>>

\* open(CACHE_FILE, "w"): the file is truncated, or the open fails
OpenForWrite(p) ==
    /\ pc[p] = "open"
    /\ \E ok \in BOOLEAN :
          IF ok
          THEN /\ cache' = CacheOf(<<>>, now)
               /\ pc' = [pc EXCEPT ![p] = "dump"]
          ELSE /\ cache' = cache
               /\ pc' = [pc EXCEPT ![p] = "fallback"]
    /\ UNCHANGED <<now, call, good, usage, parts, crashed, delta, dur,
                   resets_at, reset_str, data, ret, fetched, step>>

\* json.dump and the close: the text is written at offset 0 and the snapshot
\* is returned, or the write fails with keep tokens written
WriteData(p) ==
    /\ pc[p] = "dump"
    /\ \E wr \in {"ok", "cut"}, keep \in 0..MaxKeep :
          IF wr = "ok"
          THEN /\ cache' = CacheOf(Overwrite(cache.text, Dump(data[p])), now)
               /\ ret' = [ret EXCEPT ![p] = [raised |-> FALSE, v |-> data[p]]]
               /\ pc' = [pc EXCEPT ![p] = "done"]
          ELSE /\ cache' = CacheOf(Overwrite(cache.text,
                              SubSeq(Dump(data[p]), 1, Min(keep, Len(Dump(data[p])) - 1))), now)
               /\ ret' = ret
               /\ pc' = [pc EXCEPT ![p] = "fallback"]
    /\ UNCHANGED <<now, call, good, usage, parts, crashed, delta, dur,
                   resets_at, reset_str, data, fetched, step>>

\* the except block
Fallback(p) ==
    /\ pc[p] = "fallback"
    /\ ret' = [ret EXCEPT ![p] = StaleFallback(cache)]
    /\ pc' = [pc EXCEPT ![p] = "done"]
    /\ UNCHANGED <<now, cache, call, good, usage, parts, crashed, delta, dur,
                   resets_at, reset_str, data, fetched, step>>

NextRace ==
    \/ \E p \in Procs :
          \/ Stat(p) \/ ReadCache(p) \/ ReadCred(p) \/ CallEndpoint(p)
          \/ OpenForWrite(p) \/ WriteData(p) \/ Fallback(p)
    \/ Tick

SpecRace == InitRace /\ [][NextRace]_vars

\* the snapshots an invocation may rightly return: the one the cache held at
\* the start, those fetched from the endpoint, the empty mapping
Returnable ==
    fetched \cup {EmptyDoc} \cup (IF good /= <<>> THEN {Loads(good).v} ELSE {})

\* C10: under every interleaving each invocation returns without raising, and
\* returns a complete snapshot (the cache's at the start, or one fetched by
\* some invocation) or the empty mapping.
C10_RaceReturnsComplete ==
    \A p \in Procs :
        pc[p] = "done" => ~ret[p].raised /\ ret[p].v \in Returnable

\* an invocation read the cache file while another had truncated it and not
\* yet written: it fell back and returned the empty mapping although the cache
\* held a snapshot at the start
C10_Witness ==
    \E p, q \in Procs :
        /\ p /= q
        /\ pc[p] = "done" /\ pc[q] = "dump"
        /\ cache.text = <<>>
        /\ good = DocText[FullSnap]
        /\ ret[p] = [raised |-> FALSE, v |-> EmptyDoc]

====
